---- MODULE Spec2Model ----
(***************************************************************************)
(* State-machine model of the Obsidian project-manager plugin (main.ts):   *)
(* the plugin object (settings, Supabase session, realtime channel, the    *)
(* projects/tasks mirror, status bar), the kanban board (React state of    *)
(* KanbanBoard), the modal flows that mutate the remote store, and the     *)
(* remote store itself as the environment.  Every awaited Supabase call is *)
(* a request in flight: the handler's code up to the await is one action,  *)
(* the remote's answer is an environment action, and the code after the    *)
(* await (the continuation) is another action.                             *)
(***************************************************************************)
EXTENDS Integers, Sequences, FiniteSets, Bags, TLC

\* ---------------------------------------------------------------- bounds
MaxInFlight == 2    \* requests awaiting an answer or their continuation
MaxEvents == 2      \* change notifications queued per collection
MaxChannels == 2    \* realtime channels ever subscribed
MaxWrites == 1      \* inserts, updates and deletes awaiting an answer or continuation
MaxRev == 1         \* committed changes per remote collection
MaxSaves == 2       \* realtime toggles awaiting the save of the settings

\* ------------------------------------------------------------ data model
Statuses == {"todo", "in-progress", "done", "blocked", "cancelled"}
Collections == {"projects", "tasks"}
TaskIds == {"t1", "t2", "t3"}
ProjectIds == {"p1", "p2"}
NotePath == "note.md"

\* One remote row.  Projects and tasks share the shape (a project's title is
\* its name and its project_id is empty); "" stands for an absent value.
Row(id, title, status, pid, md) ==
    [id |-> id, title |-> title, status |-> status, project_id |-> pid,
     markdown_file |-> md]

Range(s) == {s[i] : i \in DOMAIN s}
Ids(s) == {s[i].id : i \in DOMAIN s}

\* Array.prototype.find(r => r.id === id): the first match, or the empty
\* sequence for undefined.
Find(s, id) == SelectSeq(s, LAMBDA r : r.id = id)
Has(s, id) == Find(s, id) # << >>
StatusOf(s, id) == IF Has(s, id) THEN Find(s, id)[1].status ELSE ""

\* ---------------------------------------------------------------- state
VARIABLES
    pstate,            \* plugin lifecycle: "new" | "loaded" | "unloaded"
    settings,          \* ProjectManagerSettings
    supabase,          \* plugin.supabase is non-null
    realtimeChannel,   \* plugin.realtimeChannel: 0 = null, else channel number
    channels,          \* channels subscribed at the remote and not unsubscribed
    saves,             \* realtime toggle handlers awaiting saveSettings
    projects, tasks,   \* the mirror: plugin.projects, plugin.tasks
    statusBar,         \* number shown by "Active tasks: n"; -1 before first set
    root,              \* plugin.kanbanView.root is set
    rootState,         \* that root: "none" | "created" | "rendered" | "unmounted"
    selectedProjectId, \* KanbanView.selectedProjectId ("" = null)
    currentTasks,      \* KanbanBoard state currentTasks
    filteredTasks,     \* KanbanBoard state filteredTasks
    renderedTasks,     \* KanbanBoard prop tasks of its last render
    renderedProjectId, \* KanbanBoard prop selectedProjectId of its last render
    activeId,          \* KanbanBoard state activeId ("" = null)
    dragging,          \* the card whose useSortable isDragging is true ("" = none)
    remote,            \* the remote store: collection -> rows, updated_at descending
    rev,               \* the remote store: collection -> number of committed changes
    notified,          \* history: the last revision announced to some channel
    lastMove,          \* history: the last drag update the remote committed
    mirrorRev,         \* history: revision of the snapshot each mirror holds (-1: none)
    listed,            \* history: <<project, task>> choices some modal opened so far offers
    clicked,           \* history: what the detail modals opened so far hold
    events,            \* bag of change notifications not yet delivered
    inflight,          \* bag of requests in flight
    notices,           \* Notice()s raised by the last step
    requests,          \* requests issued by the last step
    lastOp             \* the handler or continuation that ran last

vars == << pstate, settings, supabase, realtimeChannel, channels, saves, projects,
           tasks, statusBar, root, rootState, selectedProjectId, currentTasks,
           filteredTasks, renderedTasks, renderedProjectId, activeId, dragging,
           remote, rev, notified, lastMove, mirrorRev,
           listed, clicked, events, inflight, notices, requests, lastOp >>

pluginVars == << pstate, settings, supabase, realtimeChannel, channels, saves >>
mirrorVars == << projects, tasks, mirrorRev, listed >>
boardVars == << root, rootState, selectedProjectId, currentTasks, filteredTasks,
               renderedTasks, renderedProjectId, activeId, dragging, clicked >>
remoteVars == << remote, rev, notified, events >>

\* ------------------------------------------------------------- requests
\* A request: what was sent (kind, coll, id, fields), the flow whose
\* continuation awaits it, and the answer once the remote has given it.
\* fields is the update/insert payload as a set of <<field, value>> pairs.
\* next is linkNote's task id still to be linked after the project update.
\* join marks a reload awaited by loadProjectsAndTasks' Promise.all.
Req(kind, coll, id, fields, flow, next, join) ==
    [kind |-> kind, coll |-> coll, id |-> id, fields |-> fields, flow |-> flow,
     next |-> next, join |-> join, phase |-> "sent", data |-> << >>, rev |-> 0]

Select(coll, join) ==
    Req("select", coll, "", {}, IF coll = "projects" THEN "loadProjects" ELSE "loadTasks",
        "", join)

Pending == BagToSet(inflight)
InFlight == BagCardinality(inflight)
One(r) == SetToBag({r})
Writes ==
    LET W == {r \in Pending : r.kind # "select"}
    IN  IF W = {} THEN 0 ELSE BagCardinality([r \in W |-> CopiesIn(r, inflight)])
\* There is room for the requests a step issues.
Room(reqs) ==
    /\ InFlight + Len(reqs) <= MaxInFlight
    /\ Writes + Len(SelectSeq(reqs, LAMBDA r : r.kind # "select")) <= MaxWrites

Notice(msg, arg) == [msg |-> msg, arg |-> arg]
Op(op, id, arg, ok) == [op |-> op, id |-> id, arg |-> arg, ok |-> ok]
\* A step of the remote store, which runs no code of the plugin.
Remote == Op("remote", "", "", TRUE)

\* ------------------------------------------------------------ the mirror
\* loadProjects / loadTasks up to the await: returns at once without a
\* session, otherwise issues select('*').order('updated_at', desc).
loadTasksUnlessLoading(sup, join) ==
    IF sup /\ ~\E r \in Pending : r.kind = "select" /\ r.coll = "tasks"
    THEN << Select("tasks", join) >> ELSE << >>
loadProjects(sup, join) == IF sup THEN << Select("projects", join) >> ELSE << >>
loadTasks(sup, join) == IF sup THEN << Select("tasks", join) >> ELSE << >>

\* updateStatusBar: the number of in-progress tasks of the mirror.
ActiveTasks(ts) == Len(SelectSeq(ts, LAMBDA t : t.status = "in-progress"))

FilterTasksOrUnassigned(ts, sel) ==
    IF sel = "" THEN ts
    ELSE SelectSeq(ts, LAMBDA t : t.project_id = sel \/ t.project_id = "")
\* The filter effect of KanbanBoard.
FilterTasks(ts, sel) ==
    IF sel = "" THEN ts ELSE SelectSeq(ts, LAMBDA t : t.project_id = sel)

\* KanbanView.updateBoard: nothing without a root; otherwise root.render
\* with copies of the mirror and the selection as props, which schedules a
\* render of the board and changes no state of it yet, and which throws on a
\* root that was unmounted.
updateBoard ==
    IF ~root THEN "" ELSE IF rootState = "unmounted" THEN "throws" ELSE "render"

BagOfSeq(s) == IF s = << >> THEN EmptyBag
               ELSE IF Len(s) = 1 THEN One(s[1])
               ELSE One(s[1]) (+) One(s[2])

\* Records the step's outputs and puts its new requests in flight.
Issue(reqs, ns, op) ==
    /\ requests' = reqs
    /\ notices' = ns
    /\ lastOp' = op

\* ------------------------------------------------------- the remote store
\* Rows as first stored.  Scenario A of the board: t1 todo in p1, t2 done.
InitialRemote ==
    [projects |-> << Row("p1", "Alpha", "active", "", "") >>,
     tasks |-> << Row("t1", "Write", "todo", "p1", ""),
                  Row("t2", "Ship", "done", "", "") >>]

\* A partial update: only the supplied fields change.
Merge(row, fields) ==
    [f \in DOMAIN row |->
        IF \E p \in fields : p[1] = f
        THEN (CHOOSE p \in fields : p[1] = f)[2]
        ELSE row[f]]

Without(s, id) == SelectSeq(s, LAMBDA r : r.id # id)

\* update(...).eq('id', id): the matched row changes and, its updated_at
\* being refreshed, comes first in updated_at-descending order.
ApplyUpdate(s, id, fields) ==
    IF Has(s, id) THEN << Merge(Find(s, id)[1], fields) >> \o Without(s, id) ELSE s

\* delete().eq('id', id)
ApplyDelete(s, id) == Without(s, id)

FieldOr(fields, f, default) ==
    IF \E p \in fields : p[1] = f THEN (CHOOSE p \in fields : p[1] = f)[2] ELSE default

\* insert([fields]): the remote assigns the id; status takes the column
\* default ('active' for projects, 'todo' for tasks).
FreshIds(coll, s) == (IF coll = "projects" THEN ProjectIds ELSE TaskIds) \ Ids(s)
ApplyInsert(coll, s, id, fields) ==
    << Row(id, FieldOr(fields, IF coll = "projects" THEN "name" ELSE "title", ""),
           IF coll = "projects" THEN "active" ELSE "todo",
           FieldOr(fields, "project_id", ""), "") >> \o s

\* One change notification per subscribed channel.
Event(coll, ch) == [coll |-> coll, chan |-> ch]
EventsOf(coll) == SetToBag({Event(coll, ch) : ch \in channels})
Queued(coll) ==
    LET S == {e \in BagToSet(events) : e.coll = coll}
    IN  IF S = {} THEN 0
        ELSE BagCardinality([e \in S |-> CopiesIn(e, events)])

\* The remote commits new rows for a collection and notifies every channel.
Commit(coll, rows) ==
    /\ rev[coll] < MaxRev
    /\ Queued(coll) + Cardinality(channels) <= MaxEvents
    /\ remote' = [remote EXCEPT ![coll] = rows]
    /\ rev' = [rev EXCEPT ![coll] = @ + 1]
    /\ events' = events (+) EventsOf(coll)
    /\ notified' = IF channels = {} THEN notified ELSE [notified EXCEPT ![coll] = rev'[coll]]

Answer(r, phase, data, n) == [r EXCEPT !.phase = phase, !.data = data, !.rev = n]

\* The remote answers a select: the rows in updated_at-descending order, or
\* an error.
RemoteSelect(r, ok) ==
    /\ r \in Pending /\ r.kind = "select" /\ r.phase = "sent"
    /\ inflight' = (inflight (-) One(r)) (+)
          One(IF ok THEN Answer(r, "ok", remote[r.coll], rev[r.coll])
                    ELSE Answer(r, "err", << >>, 0))
    /\ Issue(<< >>, << >>, Remote)
    /\ UNCHANGED << lastMove, pluginVars, mirrorVars, boardVars, remoteVars, statusBar >>

\* The remote answers an insert, update or delete: it commits it, or finds
\* nothing to change, or rejects it.
RemoteWrite(r, ok) ==
    /\ r \in Pending /\ r.kind \in {"insert", "update", "delete"} /\ r.phase = "sent"
    /\ IF ~ok
       THEN UNCHANGED remoteVars
       ELSE LET rows == remote[r.coll]
            IN  \/ /\ r.kind = "update" /\ Has(rows, r.id)
                   /\ Commit(r.coll, ApplyUpdate(rows, r.id, r.fields))
                \/ /\ r.kind = "delete" /\ Has(rows, r.id)
                   /\ Commit(r.coll, ApplyDelete(rows, r.id))
                \/ /\ r.kind = "insert"
                   /\ \E id \in FreshIds(r.coll, rows) :
                         Commit(r.coll, ApplyInsert(r.coll, rows, id, r.fields))
                \/ /\ r.kind \in {"update", "delete"} /\ ~Has(rows, r.id)
                   /\ UNCHANGED remoteVars
    /\ inflight' = (inflight (-) One(r)) (+)
          One(Answer(r, IF ok THEN "ok" ELSE "err", << >>, IF ok THEN rev'[r.coll] ELSE 0))
    /\ lastMove' = IF r.flow = "handleDragEnd" /\ rev' # rev
                   THEN [id |-> r.id, status |-> FieldOr(r.fields, "status", ""),
                         rev |-> rev'[r.coll]]
                   ELSE lastMove
    /\ Issue(<< >>, << >>, Remote)
    /\ UNCHANGED << pluginVars, mirrorVars, boardVars, statusBar >>

\* Another client of the store changes a task's status or deletes a task.
ExternalStatuses == {"in-progress", "blocked"}
ExternalChange ==
    /\ \E id \in Ids(remote.tasks) :
          \/ \E st \in ExternalStatuses \ {StatusOf(remote.tasks, id)} :
                Commit("tasks", ApplyUpdate(remote.tasks, id, {<< "status", st >>}))
          \/ Commit("tasks", ApplyDelete(remote.tasks, id))
    /\ Issue(<< >>, << >>, Remote)
    /\ UNCHANGED << lastMove, pluginVars, mirrorVars, boardVars, statusBar, inflight >>

\* Another client of the store deletes a project; tasks keep their
\* project_id.
ExternalProjectDelete ==
    /\ \E id \in Ids(remote.projects) :
          Commit("projects", ApplyDelete(remote.projects, id))
    /\ Issue(<< >>, << >>, Remote)
    /\ UNCHANGED << lastMove, pluginVars, mirrorVars, boardVars, statusBar, inflight >>

\* --------------------------------------------------------------- plugin
Configured(st) == st.supabaseUrl # "" /\ st.supabaseKey # ""

\* setupRealtimeSubscriptions: a new channel on the current client replaces
\* the reference held in realtimeChannel; the previous channel is not
\* unsubscribed.
setupRealtimeSubscriptions ==
    /\ realtimeChannel < MaxChannels
    /\ realtimeChannel' = realtimeChannel + 1
    /\ channels' = channels \cup {realtimeChannel + 1}

\* initializeSupabase under settings st.
initializeSupabase(st) ==
    IF Configured(st)
    THEN /\ supabase' = TRUE
         /\ IF st.enableRealtime
            THEN setupRealtimeSubscriptions
            ELSE UNCHANGED << realtimeChannel, channels >>
    ELSE UNCHANGED << supabase, realtimeChannel, channels >>

ConnectNotice(st) ==
    IF Configured(st)
    THEN << Notice("Connected to Supabase", "") >>
    ELSE << Notice("Please configure Supabase settings", "") >>

\* loadProjectsAndTasks up to its await: both reloads start; without a
\* session both return at once and the status bar is updated right away.
loadProjectsAndTasks(sup) == loadProjects(sup, TRUE) \o loadTasks(sup, TRUE)

Joined == {r \in Pending : r.join}

\* onload: status bar, initializeSupabase, loadProjectsAndTasks.
OnLoad ==
    /\ pstate = "new"
    /\ pstate' = "loaded"
    /\ initializeSupabase(settings)
    /\ LET reqs == loadProjectsAndTasks(supabase')
       IN  /\ Room(reqs)
           /\ inflight' = inflight (+) BagOfSeq(reqs)
           /\ Issue(reqs, ConnectNotice(settings), Op("onload", "", "", TRUE))
    /\ statusBar' = ActiveTasks(tasks)
    /\ UNCHANGED << lastMove, settings, saves, mirrorVars, boardVars, remoteVars >>

\* onunload: the channel held in realtimeChannel is unsubscribed; the field
\* keeps its reference and channels subscribed earlier are not touched.
OnUnload ==
    /\ pstate = "loaded"
    /\ pstate' = "unloaded"
    /\ channels' = channels \ {realtimeChannel}
    /\ Issue(<< >>, << >>, Op("onunload", "", "", TRUE))
    /\ UNCHANGED << lastMove, settings, supabase, realtimeChannel, saves, mirrorVars,
                    boardVars, remoteVars, statusBar, inflight >>

\* The reconnect command and the settings tab's Connect button.
Connect ==
    /\ pstate = "loaded"
    /\ initializeSupabase(settings)
    /\ Issue(<< >>, ConnectNotice(settings), Op("initializeSupabase", "", "", TRUE))
    /\ UNCHANGED << lastMove, pstate, settings, saves, mirrorVars, boardVars, remoteVars,
                    statusBar, inflight >>

\* The settings tab's URL and key fields.
Urls == {"", "https://x.supabase.co"}
Keys == {"", "anon-key"}
SetUrl(v) ==
    /\ pstate = "loaded" /\ v # settings.supabaseUrl
    /\ settings' = [settings EXCEPT !.supabaseUrl = v]
    /\ Issue(<< >>, << >>, Op("setUrl", "", v, TRUE))
    /\ UNCHANGED << lastMove, pstate, supabase, realtimeChannel, channels, saves,
                    mirrorVars, boardVars, remoteVars, statusBar, inflight >>
SetKey(v) ==
    /\ pstate = "loaded" /\ v # settings.supabaseKey
    /\ settings' = [settings EXCEPT !.supabaseKey = v]
    /\ Issue(<< >>, << >>, Op("setKey", "", v, TRUE))
    /\ UNCHANGED << lastMove, pstate, supabase, realtimeChannel, channels, saves,
                    mirrorVars, boardVars, remoteVars, statusBar, inflight >>

\* The settings tab's realtime toggle up to its await: the setting takes
\* the toggle's value and saveSettings is awaited.
ToggleRealtime ==
    /\ pstate = "loaded"
    /\ saves < MaxSaves
    /\ settings' = [settings EXCEPT !.enableRealtime = ~@]
    /\ saves' = saves + 1
    /\ Issue(<< >>, << >>, Op("toggleRealtime", "", "", TRUE))
    /\ UNCHANGED << lastMove, pstate, supabase, realtimeChannel, channels, mirrorVars,
                    boardVars, remoteVars, statusBar, inflight >>

\* The realtime toggle after its await: the settings are saved and
\* initializeSupabase runs under the settings as they are by then.
ToggleSaved ==
    /\ saves > 0
    /\ saves' = saves - 1
    /\ initializeSupabase(settings)
    /\ Issue(<< >>, ConnectNotice(settings), Op("toggleRealtime.saved", "", "", TRUE))
    /\ UNCHANGED << lastMove, pstate, settings, mirrorVars, boardVars, remoteVars, statusBar,
                    inflight >>

\* The refresh command and the settings tab's Refresh button: starts
\* loadProjectsAndTasks without awaiting it and raises the notice.
Refresh ==
    /\ pstate = "loaded"
    /\ Joined = {}
    /\ LET reqs == loadProjectsAndTasks(supabase)
       IN  /\ Room(reqs)
           /\ inflight' = inflight (+) BagOfSeq(reqs)
           /\ Issue(reqs, << Notice("Refreshed project data", "") >>,
                    Op("refresh", "", "", TRUE))
           /\ statusBar' = IF reqs = << >> THEN ActiveTasks(tasks) ELSE statusBar
    /\ UNCHANGED << lastMove, pluginVars, mirrorVars, boardVars, remoteVars >>

\* A change notification reaches its channel's callback: a projects event
\* calls loadProjects, a tasks event calls loadTasks.
Notify(e) ==
    /\ e \in BagToSet(events)
    /\ events' = events (-) SetToBag({e})
    /\ LET reqs == IF e.coll = "projects" THEN loadProjects(supabase, FALSE)
                   ELSE loadTasks(supabase, FALSE)
       IN  /\ Room(reqs)
           /\ inflight' = inflight (+) BagOfSeq(reqs)
           /\ Issue(reqs, << >>, Op("postgres_changes", e.coll, "", TRUE))
    /\ UNCHANGED << lastMove, pluginVars, mirrorVars, boardVars, remote, rev, notified, statusBar >>

\* What the mirror holds after the continuation of a reload whose answer is r:
\* the fetched rows when the fetch succeeded, what it held otherwise.
ReloadedEager(old, r) == r.data
ReloadedMerge(old, r) ==
    IF r.phase = "ok"
    THEN old \o SelectSeq(r.data, LAMBDA x : ~Has(old, x.id))
    ELSE old
ReloadedNewest(old, r) ==
    IF r.phase = "ok" /\ r.rev >= mirrorRev[r.coll] THEN r.data ELSE old
Reloaded(old, r) == IF r.phase = "ok" THEN r.data ELSE old
ReloadedRev(old, r) == IF r.phase = "ok" THEN r.rev ELSE old

ObserversAlways(r) == IF root THEN "updateBoard" ELSE ""
\* What the continuation of a reload calls once the mirror is assigned:
\* kanbanView.updateBoard when the view is open, inside the try block only.
Observers(r) == IF r.phase = "ok" /\ root THEN "updateBoard" ELSE ""

\* The try block of a reload ran to its end: the fetch succeeded and
\* updateBoard, if called, did not throw.
Completed(r) ==
    r.phase = "ok" /\ ~(Observers(r) = "updateBoard" /\ updateBoard = "throws")

\* The choices a modal opened now offers: no project or a mirrored project,
\* no task or a mirrored task (the selects of the selector, create-task and
\* link-note modals are filled from the mirror when the modal opens).
Choices(ps, ts) == ({""} \cup Ids(ps)) \X ({""} \cup Ids(ts))

\* What a detail modal opened now on a card holds: the task's id, the value
\* of its project select (the task's project when the mirror holds it, none
\* otherwise) and the task's markdown_file.  The card that is dragging (act,
\* useSortable's isDragging, not the board's activeId) opens no modal.
Snapshots(ft, ps, act) ==
    {[id |-> t.id,
      project_id |-> IF Has(ps, t.project_id) THEN t.project_id ELSE "",
      markdown_file |-> t.markdown_file] :
        t \in {x \in Range(ft) : x.status \in Statuses /\ x.id # act}}

StatusBarAfterEach(r, ts) == IF r.join THEN ActiveTasks(ts) ELSE statusBar
\* The status bar once the reload answered by r has completed:
\* loadProjectsAndTasks calls updateStatusBar when the last of the two
\* reloads it awaits has completed; a reload started otherwise leaves the
\* status bar alone.
StatusBarAfter(r, ts) ==
    IF r.join /\ Joined \ {r} = {} /\ CopiesIn(r, inflight) = 1
    THEN ActiveTasks(ts) ELSE statusBar

\* loadProjects / loadTasks after the await.
LoadDone(r) ==
    /\ r \in Pending /\ r.kind = "select" /\ r.phase \in {"ok", "err"}
    /\ inflight' = inflight (-) One(r)
    /\ projects' = IF r.coll = "projects" THEN Reloaded(projects, r) ELSE projects
    /\ tasks' = IF r.coll = "tasks" THEN Reloaded(tasks, r) ELSE tasks
    /\ mirrorRev' = [mirrorRev EXCEPT ![r.coll] = ReloadedRev(@, r)]
    /\ listed' = listed \cup Choices(projects', tasks')
    /\ clicked' = clicked \cup Snapshots(filteredTasks, projects', dragging)
    /\ Issue(<< >>,
             IF Completed(r) THEN << >>
             ELSE << Notice(IF r.coll = "projects" THEN "Failed to load projects"
                            ELSE "Failed to load tasks", "") >>,
             Op(r.flow, r.coll, Observers(r), Completed(r)))
    /\ statusBar' = StatusBarAfter(r, tasks')
    /\ UNCHANGED << lastMove, pluginVars, root, rootState, selectedProjectId, currentTasks,
                    filteredTasks, renderedTasks, renderedProjectId, activeId, dragging,
                    remoteVars >>

\* ------------------------------------------------------------ the board
\* activateKanbanView with no kanban leaf open: a new view is created
\* (nothing selected) and becomes plugin.kanbanView; its onOpen creates the
\* root and calls updateBoard, which schedules the first render.
OpenKanban ==
    /\ pstate = "loaded" /\ rootState \in {"none", "unmounted"}
    /\ root' = TRUE
    /\ rootState' = "created"
    /\ selectedProjectId' = ""
    /\ currentTasks' = << >>
    /\ filteredTasks' = << >>
    /\ renderedTasks' = << >>
    /\ renderedProjectId' = ""
    /\ activeId' = ""
    /\ dragging' = ""
    /\ Issue(<< >>, << >>, Op("onOpen", "", "", TRUE))
    /\ UNCHANGED << lastMove, pluginVars, mirrorVars, clicked, remoteVars, statusBar,
                    inflight >>

\* KanbanView.onClose: the root is unmounted, which discards the board and
\* its state; the view keeps the root and the plugin keeps the view.
CloseKanban ==
    /\ rootState \in {"created", "rendered"}
    /\ rootState' = "unmounted"
    /\ currentTasks' = << >>
    /\ filteredTasks' = << >>
    /\ renderedTasks' = << >>
    /\ renderedProjectId' = ""
    /\ activeId' = ""
    /\ dragging' = ""
    /\ Issue(<< >>, << >>, Op("onClose", "", "", TRUE))
    /\ UNCHANGED << lastMove, pluginVars, mirrorVars, root, selectedProjectId, clicked,
                    remoteVars, statusBar, inflight >>

\* The first render of KanbanBoard on a new root: useState takes the tasks
\* prop of the last updateBoard, a copy of the mirror, as the initial value
\* of currentTasks and of filteredTasks.
Mount ==
    /\ rootState = "created"
    /\ rootState' = "rendered"
    /\ currentTasks' = tasks
    /\ filteredTasks' = tasks
    /\ renderedTasks' = tasks
    /\ renderedProjectId' = selectedProjectId
    /\ clicked' = clicked \cup Snapshots(filteredTasks', projects, dragging)
    /\ Issue(<< >>, << >>, Op("render", "", "", TRUE))
    /\ UNCHANGED << lastMove, pluginVars, mirrorVars, root, selectedProjectId, activeId,
                    dragging, remoteVars, statusBar, inflight >>

\* One commit of KanbanBoard after the first, rendered in the default lane:
\* the effects left by the previous render run, then the board renders with
\* the state they set and with the props of the last updateBoard.  Those
\* effects close over the previous render: the [tasks]
\* effect sets currentTasks to the tasks prop rendered then, and the filter
\* effect filters the currentTasks rendered then under the selectedProjectId
\* prop rendered then.  The props of the last updateBoard are copies of the
\* mirror and the view's selection; their own effects run with the next
\* commit.  A commit that has nothing to change is not a step.
Effects ==
    /\ rootState = "rendered"
    /\ \/ currentTasks # renderedTasks
       \/ filteredTasks # FilterTasks(currentTasks, renderedProjectId)
       \/ renderedTasks # tasks
       \/ renderedProjectId # selectedProjectId
    /\ currentTasks' = renderedTasks
    /\ filteredTasks' = FilterTasks(currentTasks, renderedProjectId)
    /\ renderedTasks' = tasks
    /\ renderedProjectId' = selectedProjectId
    /\ clicked' = clicked \cup Snapshots(filteredTasks', projects, dragging)
    /\ Issue(<< >>, << >>, Op("useEffect", "", "", TRUE))
    /\ UNCHANGED << lastMove, pluginVars, mirrorVars, root, rootState, selectedProjectId,
                    activeId, dragging, remoteVars, statusBar, inflight >>

\* What can be selected: all projects ("" for null) or one project.
Selections == {""} \cup ProjectIds

\* The projects a selector or create-task modal opened so far lists; the
\* board's project select lists some of them.
ListedProjects == {c[1] : c \in listed}

\* A row of the project selector modal is clicked: after activateKanbanView,
\* KanbanView.setSelectedProject stores null or the project of the row
\* (whether or not it is the one already selected) and calls updateBoard.
\* With a kanban leaf already open activateKanbanView awaits nothing, the
\* handler continues inside the click and root.render renders synchronously:
\* a mounted board renders the props of this updateBoard and keeps its state
\* (what the effects set arrives with the next commit, as for
\* onProjectChange), a board not yet mounted renders for the first time.
\* When the click itself opened the view the handler continues after the
\* leaf's view state is set, outside the click, and the render is left to
\* the first commit.
setSelectedProject(p) ==
    /\ pstate = "loaded" /\ rootState \in {"created", "rendered"}
    /\ p \in ListedProjects
    /\ selectedProjectId' = p
    /\ \/ /\ rootState = "rendered"
          /\ renderedTasks' = tasks
          /\ renderedProjectId' = p
          /\ UNCHANGED << rootState, currentTasks, filteredTasks, clicked >>
       \/ /\ rootState = "created"
          /\ UNCHANGED << rootState, currentTasks, filteredTasks, renderedTasks,
                          renderedProjectId, clicked >>
       \/ /\ rootState = "created"
          /\ rootState' = "rendered"
          /\ currentTasks' = tasks
          /\ filteredTasks' = tasks
          /\ renderedTasks' = tasks
          /\ renderedProjectId' = p
          /\ clicked' = clicked \cup Snapshots(filteredTasks', projects, dragging)
    /\ Issue(<< >>, << >>, Op("setSelectedProject", p, updateBoard, TRUE))
    /\ UNCHANGED << lastMove, pluginVars, mirrorVars, root, activeId, dragging,
                    remoteVars, statusBar, inflight >>

\* The board's project select changes to another option: onProjectChange
\* calls KanbanView.setSelectedProject, whose updateBoard renders inside the
\* change event, synchronously.  That render takes the props of this
\* updateBoard; the state the effects set (those still pending from the
\* previous render, which run before it, and those of this render, which run
\* right after it) is not part of it and arrives with the next commit, where
\* the last value set wins: currentTasks becomes the tasks prop rendered
\* here, filteredTasks the filter of the currentTasks rendered here under p.
\* The select lists currentProjects, a copy of the mirror's projects given to
\* an earlier render; the options explored are the projects the mirror has
\* listed so far.
onProjectChange(p) ==
    /\ pstate = "loaded" /\ rootState = "rendered"
    /\ p \in ListedProjects
    /\ p # renderedProjectId
    /\ selectedProjectId' = p
    /\ renderedTasks' = tasks
    /\ renderedProjectId' = p
    /\ Issue(<< >>, << >>, Op("onProjectChange", p, updateBoard, TRUE))
    /\ UNCHANGED << lastMove, pluginVars, mirrorVars, root, rootState, currentTasks,
                    filteredTasks, activeId, dragging, clicked, remoteVars, statusBar,
                    inflight >>

tasksByStatusTodoKeepsOpen(ft) ==
    [st \in Statuses |->
        SelectSeq(ft, LAMBDA t : t.status = st \/ (st = "todo" /\ t.status = "in-progress"))]
\* KanbanBoard.tasksByStatus: one bucket per fixed status, each the board's
\* filtered tasks with that status, in order.
tasksByStatus(ft) ==
    [st \in Statuses |-> SelectSeq(ft, LAMBDA t : t.status = st)]

\* The cards the board renders: the tasks of the five columns.
Cards == UNION {Ids(tasksByStatus(filteredTasks)[st]) : st \in Statuses}

\* A view title: the generic one, or the one naming a project.
GenericTitle == << "Project Kanban" >>
ProjectTitle(name) == << "Kanban: ", name >>

getDisplayTextUnchecked ==
    IF selectedProjectId = "" THEN GenericTitle
    ELSE ProjectTitle(IF Has(projects, selectedProjectId)
                      THEN Find(projects, selectedProjectId)[1].title ELSE "")
\* KanbanView.getDisplayText: the selected project is looked up in the
\* mirror; without a selection or without a match the title is generic.
getDisplayText ==
    IF selectedProjectId # "" /\ Has(projects, selectedProjectId)
    THEN ProjectTitle(Find(projects, selectedProjectId)[1].title)
    ELSE GenericTitle

\* TaskCard's project badge: the name of the mirrored project the task
\* refers to, or no badge ("") when the lookup finds none.
ProjectBadge(t) ==
    IF Has(projects, t.project_id) THEN Find(projects, t.project_id)[1].title ELSE ""

\* handleDragStart: a card of the board is picked up while no other gesture
\* is in progress; activeId takes its id whatever it held.
handleDragStart(t) ==
    /\ pstate = "loaded" /\ root
    /\ dragging = "" /\ dragging' = t
    /\ t \in Cards
    /\ activeId' = t
    /\ Issue(<< >>, << >>, Op("handleDragStart", t, "", TRUE))
    /\ UNCHANGED << lastMove, pluginVars, mirrorVars, root, rootState, selectedProjectId,
                    currentTasks, filteredTasks, renderedTasks, renderedProjectId, clicked,
                    remoteVars, statusBar, inflight >>

\* The gesture is cancelled (Escape, the window losing focus): the board
\* registers onDragStart and onDragEnd only, so no handler of it runs; the
\* card stops dragging and activeId keeps the id.
DragCancel ==
    /\ pstate = "loaded" /\ root
    /\ dragging # ""
    /\ dragging' = ""
    /\ clicked' = clicked \cup Snapshots(filteredTasks, projects, "")
    /\ Issue(<< >>, << >>, Op("dragCancel", dragging, "", TRUE))
    /\ UNCHANGED << lastMove, pluginVars, mirrorVars, root, rootState, selectedProjectId,
                    currentTasks, filteredTasks, renderedTasks, renderedProjectId, activeId,
                    remoteVars, statusBar, inflight >>

\* What a gesture can end over: nothing (""), a column (droppable id = its
\* status) or a card (sortable id = the task's id).
DropTargets == {""} \cup Statuses \cup Cards
\* Every id a droppable can have, whatever the board shows.
TargetIds == {""} \cup Statuses \cup TaskIds

DragRequestsSameColumn(taskId, over) ==
    IF over = "" \/ ~Has(filteredTasks, taskId) \/ ~supabase THEN << >>
    ELSE << Req("update", "tasks", taskId, {<< "status", over >>},
                "handleDragEnd", "", FALSE) >>
DragRequestsNoTarget(taskId, over) ==
    IF ~Has(filteredTasks, taskId) \/ StatusOf(filteredTasks, taskId) = over
       \/ ~supabase
    THEN << >>
    ELSE << Req("update", "tasks", taskId, {<< "status", over >>},
                "handleDragEnd", "", FALSE) >>
DragRequestsNone(taskId, over) == << >>
\* The requests handleDragEnd issues for the dragged task id and over.id.
DragRequests(taskId, over) ==
    IF over = "" THEN << >>
    ELSE IF ~Has(filteredTasks, taskId) \/ StatusOf(filteredTasks, taskId) = over
         THEN << >>
    ELSE IF supabase
         THEN << Req("update", "tasks", taskId, {<< "status", over >>},
                     "handleDragEnd", "", FALSE) >>
    ELSE << >>

\* handleDragEnd up to its await, for the gesture in progress: the task is
\* the event's active.id, the card that was dragging.
handleDragEnd(over) ==
    /\ pstate = "loaded" /\ root
    /\ dragging # ""
    /\ activeId' = ""
    /\ dragging' = ""
    /\ over \in DropTargets
    /\ LET reqs == DragRequests(dragging, over)
       IN  /\ Room(reqs)
           /\ inflight' = inflight (+) BagOfSeq(reqs)
           /\ Issue(reqs, << >>, Op("handleDragEnd", dragging, over, TRUE))
    /\ clicked' = clicked \cup Snapshots(filteredTasks, projects, "")
    /\ UNCHANGED << lastMove, pluginVars, mirrorVars, root, rootState, selectedProjectId,
                    currentTasks, filteredTasks, renderedTasks, renderedProjectId,
                    remoteVars, statusBar >>

FallbackAlways(coll) ==
    IF coll = "projects" THEN loadProjects(supabase, FALSE)
    ELSE loadTasks(supabase, FALSE)
\* What a flow does after a successful mutation of coll: the fallback
\* reload when realtime is disabled.
Fallback(coll) ==
    IF settings.enableRealtime THEN << >>
    ELSE IF coll = "projects" THEN loadProjects(supabase, FALSE)
    ELSE loadTasks(supabase, FALSE)

DragReloadsFinally(r) == Fallback("tasks")
\* The reload handleDragEnd starts once the update is answered: the
\* fallback inside the try block, nothing from the catch block.
DragReloads(r) == IF r.phase = "ok" THEN Fallback("tasks") ELSE << >>

\* The notice handleDragEnd raises once the update is answered.
DragNotices(r) ==
    IF r.phase = "ok"
    THEN << Notice("Task moved to", FieldOr(r.fields, "status", "")) >>
    ELSE << Notice("Failed to move task", "") >>

\* handleDragEnd after its await.
DragDone(r) ==
    /\ r \in Pending /\ r.flow = "handleDragEnd" /\ r.phase \in {"ok", "err"}
    /\ LET reqs == DragReloads(r)
       IN  /\ inflight' = (inflight (-) One(r)) (+) BagOfSeq(reqs)
           /\ Issue(reqs, DragNotices(r),
                    Op("handleDragEnd.done", r.id, FieldOr(r.fields, "status", ""),
                       r.phase = "ok"))
    /\ UNCHANGED << lastMove, pluginVars, mirrorVars, boardVars, remoteVars, statusBar >>

\* ------------------------------------------------------- the modal flows
NotConnected == << Notice("Not connected to Supabase", "") >>

\* createProject up to its await: insert([{name, description}]).
ProjectNames == {"Beta"}
createProject(name) ==
    /\ pstate = "loaded"
    /\ LET reqs == IF supabase
                   THEN << Req("insert", "projects", "", {<< "name", name >>},
                               "createProject", "", FALSE) >>
                   ELSE << >>
       IN  /\ Room(reqs)
           /\ inflight' = inflight (+) BagOfSeq(reqs)
           /\ Issue(reqs, IF supabase THEN << >> ELSE NotConnected,
                    Op("createProject", "", name, TRUE))
    /\ UNCHANGED << lastMove, pluginVars, mirrorVars, boardVars, remoteVars, statusBar >>

\* createTask up to its await, for the title typed and the project chosen
\* in a create-task modal: project_id is sent only when a project was
\* chosen.
TaskTitles == {"Plan"}
TaskData(title, pid) ==
    {<< "title", title >>} \cup (IF pid # "" THEN {<< "project_id", pid >>} ELSE {})
createTask(title, pid) ==
    /\ pstate = "loaded"
    /\ pid \in ListedProjects
    /\ LET reqs == IF supabase
                   THEN << Req("insert", "tasks", "", TaskData(title, pid),
                               "createTask", "", FALSE) >>
                   ELSE << >>
       IN  /\ Room(reqs)
           /\ inflight' = inflight (+) BagOfSeq(reqs)
           /\ Issue(reqs, IF supabase THEN << >> ELSE NotConnected,
                    Op("createTask", pid, title, TRUE))
    /\ UNCHANGED << lastMove, pluginVars, mirrorVars, boardVars, remoteVars, statusBar >>

\* What the title field of the detail modal holds, trimmed, when Save is
\* pressed: the title kept, or nothing.
EditTitles == {"Write", ""}

\* The payload of the Save button of a detail modal holding m: the title
\* and status from the form, the value of the project select and the
\* markdown_file field only when not empty.
Updates(m, title, status) ==
    {<< "title", title >>, << "status", status >>}
    \cup (IF m.project_id # "" THEN {<< "project_id", m.project_id >>} ELSE {})
    \cup (IF m.markdown_file # "" THEN {<< "markdown_file", m.markdown_file >>} ELSE {})

\* TaskDetailModal.updateTask up to its await, in a detail modal holding m:
\* the modal works on the task of the click, whatever the board shows by
\* now.
updateTask(m, title, status) ==
    /\ pstate = "loaded"
    /\ m \in clicked
    /\ LET reqs == IF supabase
                   THEN << Req("update", "tasks", m.id, Updates(m, title, status),
                               "updateTask", "", FALSE) >>
                   ELSE << >>
       IN  /\ Room(reqs)
           /\ inflight' = inflight (+) BagOfSeq(reqs)
           /\ Issue(reqs, IF supabase THEN << >> ELSE NotConnected,
                    Op("updateTask", m.id, status, TRUE))
    /\ UNCHANGED << lastMove, pluginVars, mirrorVars, boardVars, remoteVars, statusBar >>

\* TaskDetailModal.deleteTask up to its await, once confirmed, in a detail
\* modal opened on task id.
deleteTask(id) ==
    /\ pstate = "loaded"
    /\ \E m \in clicked : m.id = id
    /\ LET reqs == IF supabase
                   THEN << Req("delete", "tasks", id, {}, "deleteTask", "", FALSE) >>
                   ELSE << >>
       IN  /\ Room(reqs)
           /\ inflight' = inflight (+) BagOfSeq(reqs)
           /\ Issue(reqs, IF supabase THEN << >> ELSE NotConnected,
                    Op("deleteTask", id, "", TRUE))
    /\ UNCHANGED << lastMove, pluginVars, mirrorVars, boardVars, remoteVars, statusBar >>

\* TaskCard.handleDeleteTask up to its await, on a card that is not
\* dragging and once confirmed: without a session it does nothing and says
\* nothing.
handleDeleteTask(id) ==
    /\ pstate = "loaded" /\ root
    /\ id \in Cards /\ dragging # id
    /\ LET reqs == IF supabase
                   THEN << Req("delete", "tasks", id, {}, "handleDeleteTask", "", FALSE) >>
                   ELSE << >>
       IN  /\ Room(reqs)
           /\ inflight' = inflight (+) BagOfSeq(reqs)
           /\ Issue(reqs, << >>, Op("handleDeleteTask", id, "", TRUE))
    /\ UNCHANGED << lastMove, pluginVars, mirrorVars, boardVars, remoteVars, statusBar >>

\* The update linkNote sends for one collection.
LinkRequest(coll, id, next) ==
    Req("update", coll, id, {<< "markdown_file", NotePath >>}, "linkNote", next, FALSE)

\* LinkNoteModal.linkNote up to its first await, for the project and the
\* task chosen in a link-note modal: the project update when a project was
\* selected, otherwise the task update when a task was.
linkNote(projectId, taskId) ==
    /\ pstate = "loaded"
    /\ << projectId, taskId >> \in listed
    /\ LET reqs == IF ~supabase THEN << >>
                   ELSE IF projectId # ""
                        THEN << LinkRequest("projects", projectId, taskId) >>
                   ELSE IF taskId # ""
                        THEN << LinkRequest("tasks", taskId, "") >>
                   ELSE << >>
       IN  /\ Room(reqs)
           /\ inflight' = inflight (+) BagOfSeq(reqs)
           /\ Issue(reqs, IF supabase THEN << >> ELSE NotConnected,
                    Op("linkNote", projectId, taskId, TRUE))
    /\ UNCHANGED << lastMove, pluginVars, mirrorVars, boardVars, remoteVars, statusBar >>

\* The notice linkNote raises once one of its updates is answered.
LinkNotices(r) ==
    IF r.coll = "projects"
    THEN << Notice(IF r.phase = "ok" THEN "Note linked to project"
                   ELSE "Failed to link note to project", "") >>
    ELSE << Notice(IF r.phase = "ok" THEN "Note linked to task"
                   ELSE "Failed to link note to task", "") >>

\* linkNote after an await: the notice, then the task update if the answer
\* was the project update's and a task was selected.  No reload is started.
LinkDone(r) ==
    /\ r \in Pending /\ r.flow = "linkNote" /\ r.phase \in {"ok", "err"}
    /\ LET reqs == IF r.coll = "projects" /\ r.next # ""
                   THEN << LinkRequest("tasks", r.next, "") >>
                   ELSE << >>
       IN  /\ inflight' = (inflight (-) One(r)) (+) BagOfSeq(reqs)
           /\ Issue(reqs, LinkNotices(r), Op("linkNote.done", r.id, r.coll, r.phase = "ok"))
    /\ UNCHANGED << lastMove, pluginVars, mirrorVars, boardVars, remoteVars, statusBar >>

ModalFlows == {"createProject", "createTask", "updateTask", "deleteTask", "handleDeleteTask"}

FlowNoticesOnSuccessOnly(r) ==
    IF r.phase = "ok" THEN << Notice("Task updated successfully", "") >> ELSE << >>
\* The notice a create, update or delete flow raises once answered.
FlowNotices(r) ==
    IF r.phase = "ok"
    THEN CASE r.flow = "createProject" ->
                << Notice("Project created successfully", FieldOr(r.fields, "name", "")) >>
           [] r.flow = "createTask" ->
                << Notice("Task created successfully", FieldOr(r.fields, "title", "")) >>
           [] r.flow = "updateTask" -> << Notice("Task updated successfully", "") >>
           [] OTHER -> << Notice("Task deleted successfully", "") >>
    ELSE CASE r.flow = "createProject" -> << Notice("Failed to create project", "") >>
           [] r.flow = "createTask" -> << Notice("Failed to create task", "") >>
           [] r.flow = "updateTask" -> << Notice("Failed to update task", "") >>
           [] OTHER -> << Notice("Failed to delete task", "") >>

DoneOf(flow) ==
    CASE flow = "createProject" -> "createProject.done"
      [] flow = "createTask" -> "createTask.done"
      [] flow = "updateTask" -> "updateTask.done"
      [] flow = "deleteTask" -> "deleteTask.done"
      [] OTHER -> "handleDeleteTask.done"

LocalMirrorOptimistic(r) ==
    /\ tasks' = IF r.phase = "ok" /\ r.kind = "delete" THEN ApplyDelete(tasks, r.id) ELSE tasks
    /\ UNCHANGED << projects, mirrorRev, listed >>
\* What a flow's continuation does to plugin.projects and plugin.tasks
\* itself: nothing, the change reaches the mirror through a reload only.
LocalMirror(r) == UNCHANGED mirrorVars

\* A create, update or delete flow after its await: the success notice and
\* the fallback reload, or the failure notice.
FlowDone(r) ==
    /\ r \in Pending /\ r.flow \in ModalFlows /\ r.phase \in {"ok", "err"}
    /\ LET reqs == IF r.phase = "ok" THEN Fallback(r.coll) ELSE << >>
       IN  /\ inflight' = (inflight (-) One(r)) (+) BagOfSeq(reqs)
           /\ Issue(reqs, FlowNotices(r), Op(DoneOf(r.flow), r.id, r.coll, r.phase = "ok"))
    /\ LocalMirror(r)
    /\ UNCHANGED << lastMove, pluginVars, boardVars, remoteVars, statusBar >>

\* -------------------------------------------------------- specification
Init ==
    /\ pstate = "new"
    /\ settings \in [supabaseUrl : Urls, supabaseKey : Keys, enableRealtime : BOOLEAN]
    /\ supabase = FALSE
    /\ realtimeChannel = 0
    /\ channels = {}
    /\ saves = 0
    /\ projects = << >>
    /\ tasks = << >>
    /\ statusBar = -1
    /\ root = FALSE
    /\ rootState = "none"
    /\ selectedProjectId = ""
    /\ currentTasks = << >>
    /\ filteredTasks = << >>
    /\ renderedTasks = << >>
    /\ renderedProjectId = ""
    /\ activeId = ""
    /\ dragging = ""
    /\ remote = InitialRemote
    /\ rev = [c \in Collections |-> 0]
    /\ notified = [c \in Collections |-> 0]
    /\ lastMove = [id |-> "", status |-> "", rev |-> 0]
    /\ mirrorRev = [c \in Collections |-> -1]
    /\ listed = Choices(<< >>, << >>)
    /\ clicked = {}
    /\ events = EmptyBag
    /\ inflight = EmptyBag
    /\ notices = << >>
    /\ requests = << >>
    /\ lastOp = Op("", "", "", TRUE)

\* The reload pipeline: sessions, realtime channels, refreshes, change
\* notifications and the reloads they start, against a store that other
\* clients change.
NextSync ==
    \/ OnLoad
    \/ Connect
    \/ Refresh
    \/ \E e \in BagToSet(events) : Notify(e)
    \/ \E r \in Pending, ok \in BOOLEAN : RemoteSelect(r, ok)
    \/ ExternalChange
    \/ \E r \in Pending : LoadDone(r)

SpecSync == Init /\ [][NextSync]_vars

\* Where the gestures explored end: nowhere, over a column, over a card.
Offered == {"", "todo", "done"} \cup TaskIds

\* The board: drag gestures, the status updates they issue, and the reloads
\* that follow them through change notifications or the fallback.
NextDrag ==
    \/ OnLoad
    \/ Connect
    \/ \E e \in BagToSet(events) : Notify(e)
    \/ \E r \in Pending, ok \in BOOLEAN : RemoteSelect(r, ok)
    \/ \E r \in Pending, ok \in BOOLEAN : RemoteWrite(r, ok)
    \/ \E r \in Pending : LoadDone(r)
    \/ OpenKanban
    \/ Mount
    \/ Effects
    \/ \E t \in TaskIds : handleDragStart(t)
    \/ DragCancel
    \/ \E over \in Offered : handleDragEnd(over)
    \/ \E r \in Pending : DragDone(r)

SpecDrag == Init /\ [][NextDrag]_vars

\* What the flows explored choose: the project of a new task, the project
\* and task a note is linked to.
CreateIn == {"p1"}
LinkChoices == {<< "p1", "t1" >>, << "", "t1" >>, << "p1", "" >>}

\* The flows that change the remote store: the create, edit, delete and
\* link modals, the card's delete button and one drag, with the reloads that
\* follow them and the board's renders.
NextFlows ==
    \/ OnLoad
    \/ \E e \in BagToSet(events) : Notify(e)
    \/ \E r \in Pending, ok \in BOOLEAN : RemoteSelect(r, ok)
    \/ \E r \in Pending, ok \in BOOLEAN : RemoteWrite(r, ok)
    \/ \E r \in Pending : LoadDone(r)
    \/ OpenKanban
    \/ Mount
    \/ Effects
    \/ \E name \in ProjectNames : createProject(name)
    \/ \E title \in TaskTitles, pid \in CreateIn : createTask(title, pid)
    \/ \E m \in clicked, title \in EditTitles :
          m.id = "t1" /\ updateTask(m, title, "blocked")
    \/ deleteTask("t2")
    \/ handleDeleteTask("t1")
    \/ \E c \in LinkChoices : linkNote(c[1], c[2])
    \/ \E r \in Pending : LinkDone(r)
    \/ \E r \in Pending : FlowDone(r)
    \/ handleDragStart("t1")
    \/ handleDragEnd("done")
    \/ \E r \in Pending : DragDone(r)

SpecFlows == Init /\ [][NextFlows]_vars

\* The session and its settings: connecting, editing the URL and key,
\* toggling realtime, refreshing and unloading, with the notifications of a
\* store that another client changes.
NextConfig ==
    \/ OnLoad
    \/ Connect
    \/ \E v \in Urls : SetUrl(v)
    \/ \E v \in Keys : SetKey(v)
    \/ ToggleRealtime
    \/ ToggleSaved
    \/ Refresh
    \/ OnUnload
    \/ ExternalChange
    \/ \E e \in BagToSet(events) : Notify(e)
    \/ \E r \in Pending : RemoteSelect(r, TRUE)
    \/ \E r \in Pending : LoadDone(r)

SpecConfig == Init /\ [][NextConfig]_vars

\* The board as a view of the mirror: opening it, selecting a project, and
\* the reloads that follow the changes other clients make to the store.
NextBoard ==
    \/ OnLoad
    \/ OpenKanban
    \/ CloseKanban
    \/ Mount
    \/ Effects
    \/ \E p \in Selections : setSelectedProject(p)
    \/ \E p \in Selections : onProjectChange(p)
    \/ ExternalChange
    \/ ExternalProjectDelete
    \/ \E e \in BagToSet(events) : Notify(e)
    \/ \E r \in Pending, ok \in BOOLEAN : RemoteSelect(r, ok)
    \/ \E r \in Pending : LoadDone(r)

SpecBoard == Init /\ [][NextBoard]_vars

\* --------------------------------------------------------------- claims
Mirror(c) == IF c = "projects" THEN projects ELSE tasks
SelectsOf(c) == {r \in Pending : r.kind = "select" /\ r.coll = c}
FlowOf(c) == IF c = "projects" THEN "loadProjects" ELSE "loadTasks"

\* C1: a reload whose fetch succeeded replaces the mirror of its collection
\* by exactly the fetched rows, in fetch order; a reload whose fetch failed
\* leaves it as it was; the other collection is untouched; and no step takes
\* a mirror to anything but the whole of a fetched snapshot.
C1_ReloadAtomic ==
    [][ /\ \A r \in Pending :
             LoadDone(r) =>
                /\ r.coll = "tasks" =>
                      /\ tasks' = (IF r.phase = "ok" THEN r.data ELSE tasks)
                      /\ projects' = projects
                /\ r.coll = "projects" =>
                      /\ projects' = (IF r.phase = "ok" THEN r.data ELSE projects)
                      /\ tasks' = tasks
        /\ \A c \in Collections :
             Mirror(c)' # Mirror(c) =>
                \E r \in SelectsOf(c) : r.phase = "ok" /\ Mirror(c)' = r.data
      ]_vars

\* C1 witness: a reload of tasks has just failed and the mirror still holds
\* the rows an earlier reload fetched.
C1_Witness ==
    /\ lastOp = Op("loadTasks", "tasks", "", FALSE)
    /\ notices = << Notice("Failed to load tasks", "") >>
    /\ tasks # << >>

\* C2: with realtime enabled, once the remote has committed a drag's status
\* update of task t to d and a reload that fetched after it has installed
\* its snapshot, the mirror shows t with status d, however many channels
\* announced the change and in whatever order their reloads completed.
C2_StatusAfterNotifications ==
    ( /\ settings.enableRealtime
      /\ lastMove.id # ""
      /\ rev.tasks = lastMove.rev
      /\ mirrorRev.tasks = rev.tasks )
    => StatusOf(tasks, lastMove.id) = lastMove.status

\* C2 witness: two channels announced the update, both notifications were
\* delivered and both reloads have completed.
C2_Witness ==
    /\ settings.enableRealtime
    /\ Cardinality(channels) = 2
    /\ lastMove.id # "" /\ notified.tasks = lastMove.rev
    /\ Queued("tasks") = 0 /\ SelectsOf("tasks") = {}
    /\ lastOp = Op("loadTasks", "tasks", "updateBoard", TRUE)
    /\ StatusOf(tasks, lastMove.id) = lastMove.status

\* C3 as claimed: once every change of a collection has been announced,
\* every notification delivered and every reload completed (the last of
\* them successfully), the mirror equals the remote collection.
C3_Original ==
    \A c \in Collections :
        ( /\ rev[c] > 0 /\ notified[c] = rev[c]
          /\ Queued(c) = 0 /\ SelectsOf(c) = {}
          /\ lastOp = Op(FlowOf(c), c, "", TRUE) )
        => Mirror(c) = remote[c]

\* C3 as amended: every delivered notification starts a reload of its
\* collection whose fetch is still to be made, so a reload fetches after the
\* last event of a burst; and the mirror equals the remote collection
\* whenever the snapshot it holds was fetched after the last remote change.
C3_NoEventDropped ==
    /\ lastOp.op = "postgres_changes" =>
          /\ requests = << Select(lastOp.id, FALSE) >>
          /\ requests[1] \in Pending
    /\ \A c \in Collections : mirrorRev[c] = rev[c] => Mirror(c) = remote[c]

\* C3 witness: a notification arrives while an earlier reload of the same
\* collection, whose snapshot is already out of date, is still in flight.
C3_Witness ==
    /\ lastOp.op = "postgres_changes"
    /\ \E r \in SelectsOf(lastOp.id) : r.phase = "ok" /\ r.rev < rev[r.coll]

\* C4: a drop of a task onto the column of another status issues exactly one
\* update of that task carrying only the status; when the update succeeded
\* the handler then starts exactly one reload of tasks if realtime is
\* disabled and none if it is enabled.
C4_OneUpdateThenReload ==
    /\ ( /\ lastOp.op = "handleDragEnd" /\ lastOp.arg \in Statuses
         /\ Has(filteredTasks, lastOp.id)
         /\ StatusOf(filteredTasks, lastOp.id) # lastOp.arg
         /\ supabase )
       => requests = << Req("update", "tasks", lastOp.id,
                            {<< "status", lastOp.arg >>}, "handleDragEnd", "", FALSE) >>
    /\ (lastOp.op = "handleDragEnd.done" /\ lastOp.ok)
       => requests = IF settings.enableRealtime THEN << >>
                     ELSE << Select("tasks", FALSE) >>

\* C4 witness: Scenario B, t1 dragged to done with realtime disabled, the
\* update succeeded and the fallback reload was started.
C4_Witness ==
    /\ lastOp = Op("handleDragEnd.done", "t1", "done", TRUE)
    /\ ~settings.enableRealtime
    /\ requests = << Select("tasks", FALSE) >>

\* C5 as claimed: with realtime disabled, the continuation of every flow
\* whose mutation the remote accepted starts a reload of the collection the
\* mutation affected.
C5_FallbackAfterEveryMutation ==
    ( /\ ~settings.enableRealtime
      /\ lastOp.ok
      /\ lastOp.op \in {DoneOf(f) : f \in ModalFlows} \cup {"linkNote.done"} )
    => \E i \in DOMAIN requests : requests[i] = Select(lastOp.arg, FALSE)

\* C6 as claimed: every status the drag handler sends is one of the five
\* fixed statuses.
C6_OnlyFixedStatuses ==
    \A r \in Pending :
        r.flow = "handleDragEnd" => FieldOr(r.fields, "status", "") \in Statuses

\* C7: a drop onto the column of the status the board records for the task
\* issues no request, raises no notice, starts no reload and leaves the
\* mirror and the remote store as they were.
C7_SameColumnNoOp ==
    [][ \A over \in Statuses :
          (handleDragEnd(over) /\ StatusOf(filteredTasks, dragging) = over) =>
             /\ requests' = << >> /\ notices' = << >>
             /\ inflight' = inflight
             /\ UNCHANGED << projects, tasks, remote, events >>
      ]_vars

\* C7 witness: a card was dropped on its own column while connected.
C7_Witness ==
    /\ lastOp.op = "handleDragEnd" /\ lastOp.arg \in Statuses
    /\ StatusOf(filteredTasks, lastOp.id) = lastOp.arg
    /\ supabase

\* C8: a gesture that ends over no drop target resets activeId and changes
\* nothing else: no request, no notice, no reload, mirror and board as before.
C8_NoTargetNoChange ==
    [][ handleDragEnd("") =>
          /\ activeId' = ""
          /\ requests' = << >> /\ notices' = << >>
          /\ inflight' = inflight
          /\ UNCHANGED << projects, tasks, mirrorRev, currentTasks, filteredTasks,
                          remote, rev, events, statusBar >>
      ]_vars

\* C8 witness: a gesture on a connected board ended over nothing.
C8_Witness ==
    /\ lastOp.op = "handleDragEnd" /\ lastOp.arg = "" /\ lastOp.id # ""
    /\ supabase /\ Has(filteredTasks, lastOp.id)

\* C9: when the remote rejects a drop's update the handler raises the
\* failure notice and nothing else, starts no reload, and neither of its two
\* steps changes the mirror.
C9_RejectedDrop ==
    [][ /\ \A r \in Pending :
             (DragDone(r) /\ r.phase = "err") =>
                /\ notices' = << Notice("Failed to move task", "") >>
                /\ requests' = << >>
                /\ inflight' = inflight (-) One(r)
                /\ UNCHANGED << projects, tasks >>
        /\ \A over \in TargetIds : handleDragEnd(over) => UNCHANGED << projects, tasks >>
      ]_vars

\* C9 witness: the update of a mirrored task was rejected.
C9_Witness ==
    /\ lastOp.op = "handleDragEnd.done" /\ ~lastOp.ok
    /\ Has(tasks, lastOp.id)
    /\ StatusOf(tasks, lastOp.id) # lastOp.arg

\* C10: a mirror collection changes only in the continuation of a reload
\* whose fetch succeeded, and then to the fetched rows; it is empty until
\* the first such reload and afterwards a snapshot of the remote collection;
\* no create, update, delete, link or drag step changes it.
C10_MirrorOnlyByReload ==
    /\ [](\A c \in Collections :
            /\ mirrorRev[c] = -1 => Mirror(c) = << >>
            /\ mirrorRev[c] = 0 => Mirror(c) = InitialRemote[c]
            /\ mirrorRev[c] = rev[c] => Mirror(c) = remote[c])
    /\ [][ \A c \in Collections :
             Mirror(c)' # Mirror(c) =>
                \E r \in SelectsOf(c) :
                   r.phase = "ok" /\ LoadDone(r) /\ Mirror(c)' = r.data
         ]_vars

\* C10 witness: the remote deleted a task for a flow, the flow has reported
\* success, and the mirror still lists the task.
C10_Witness ==
    /\ lastOp.op \in {"deleteTask.done", "handleDeleteTask.done"} /\ lastOp.ok
    /\ Has(tasks, lastOp.id) /\ ~Has(remote.tasks, lastOp.id)

\* C11 as claimed: once the plugin is unloaded no channel it subscribed is
\* still subscribed.
C11_NoneLiveAfterUnload ==
    pstate = "unloaded" => channels = {}

\* C12 as claimed: at most one channel is subscribed at any time.
C12_AtMostOneSubscription ==
    Cardinality(channels) <= 1

\* C13 as claimed: while enableRealtime is false no channel is subscribed
\* and no change notification starts a reload.
C13_LiveOnlyWhileEnabled ==
    ~settings.enableRealtime =>
        /\ channels = {}
        /\ lastOp.op # "postgres_changes"

\* C14 as claimed: while the URL or the key is empty no step sends a request
\* to the remote.
C14_NoRequestUnconfigured ==
    ~Configured(settings) => requests = << >>

\* C15 as claimed: every operation attempted without a session raises the
\* connection-error notice.
C15_ReportedWithoutSession ==
    ( /\ ~supabase
      /\ lastOp.op \in {"refresh", "createProject", "createTask", "updateTask",
                        "deleteTask", "handleDeleteTask", "linkNote", "handleDragEnd"} )
    => \E i \in DOMAIN notices : notices[i] = Notice("Not connected to Supabase", "")

\* C16 as claimed: a reload whose fetch failed ends in an error for its
\* caller, so loadProjectsAndTasks, which awaits both reloads, does not go on
\* to the statement after its await (updateStatusBar).
C16_ErrorReachesCaller ==
    [][ \A r \in Pending :
          (LoadDone(r) /\ r.phase = "err" /\ r.join) => statusBar' = statusBar
      ]_vars

\* C17: the continuation of a reload of either collection calls updateBoard
\* on the plugin's board view if and only if the fetch succeeded and the view
\* has a root; the continuation of a reload whose fetch failed does not call
\* it and leaves the board as it was.
C17_BoardNotifiedOnSuccessOnly ==
    [][ \A r \in Pending :
          LoadDone(r) =>
             /\ lastOp'.arg = "updateBoard" <=> (r.phase = "ok" /\ root)
             /\ r.phase = "err" => UNCHANGED << currentTasks, filteredTasks >>
      ]_vars

\* C17 witness: with the board rendered, a reload of tasks that fetched a
\* changed row has succeeded and called updateBoard; the render it scheduled
\* is still to come.
C17_Witness ==
    /\ rootState = "rendered"
    /\ lastOp = Op("loadTasks", "tasks", "updateBoard", TRUE)
    /\ mirrorRev.tasks > 0
    /\ tasks = remote.tasks /\ currentTasks # tasks

SuccessMessages ==
    {"Project created successfully", "Task created successfully",
     "Task updated successfully", "Task deleted successfully", "Task moved to"}
FailureMessages ==
    {"Failed to create project", "Failed to create task", "Failed to update task",
     "Failed to delete task", "Failed to move task"}

\* C18: when the answer to a project insert, task insert, task update, drag
\* status update or task delete reaches its flow, the flow raises exactly
\* one notice: a success message if and only if the remote accepted the
\* call, a failure message if and only if it rejected it.
C18_NoticeMatchesOutcome ==
    [][ \A r \in Pending :
          (FlowDone(r) \/ DragDone(r)) =>
             /\ Len(notices') = 1
             /\ notices'[1].msg \in SuccessMessages <=> r.phase = "ok"
             /\ notices'[1].msg \in FailureMessages <=> r.phase = "err"
      ]_vars

\* C18 witness: the card's delete was rejected by the remote and the
\* failure notice was raised.
C18_Witness ==
    /\ lastOp.op = "handleDeleteTask.done" /\ ~lastOp.ok
    /\ notices = << Notice("Failed to delete task", "") >>
    /\ Has(remote.tasks, lastOp.id)

\* C19: when a reload completes successfully while another reload of the
\* same collection is in flight, or after a reload that fetched later has
\* already completed, the mirror becomes the rows this reload fetched: the
\* reload that completes last decides, even if its rows are the older ones.
C19_LastCompletedWins ==
    [][ \A r \in Pending :
          ( /\ LoadDone(r) /\ r.phase = "ok"
            /\ \/ SelectsOf(r.coll) # {r}
               \/ CopiesIn(r, inflight) > 1
               \/ r.rev < mirrorRev[r.coll] )
          => /\ Mirror(r.coll)' = r.data
             /\ mirrorRev'[r.coll] = r.rev
      ]_vars

\* C19 witness: of two concurrent reloads of tasks the one that fetched the
\* current rows has completed, and the other, answered with the rows as
\* they were before the change, is still to complete.
C19_Witness ==
    /\ lastOp = Op("loadTasks", "tasks", "", TRUE)
    /\ mirrorRev.tasks = rev.tasks /\ rev.tasks > 0
    /\ \E r \in SelectsOf("tasks") : r.phase = "ok" /\ r.rev < rev.tasks

\* The board projection of task sequence T under selection P.
Board(T, P) == tasksByStatus(FilterTasks(T, P))
BucketsWith(B, t) == {st \in DOMAIN B : t \in Range(B[st])}
BucketTotal(B) ==
    Len(B["todo"]) + Len(B["in-progress"]) + Len(B["done"]) + Len(B["blocked"])
    + Len(B["cancelled"])

\* C20: for the mirrored tasks T and every selection P the projection has
\* the five buckets, every task of T that passes the filter is in exactly one
\* bucket, the one of its status, and the buckets together hold exactly the
\* filtered tasks, none lost or duplicated; the same holds of the buckets
\* the board shows and the filteredTasks it holds.  T is a sequence of Task
\* rows, whose status is one of the five.
C20_Partition ==
    /\ \A P \in Selections :
          LET F == FilterTasks(tasks, P)
              B == Board(tasks, P)
          IN  /\ DOMAIN B = Statuses
              /\ \A t \in Range(F) : BucketsWith(B, t) = {t.status}
              /\ UNION {Range(B[st]) : st \in Statuses} = Range(F)
              /\ BucketTotal(B) = Len(F)
    /\ LET B == tasksByStatus(filteredTasks)
       IN  /\ DOMAIN B = Statuses
           /\ \A t \in Range(filteredTasks) : BucketsWith(B, t) = {t.status}
           /\ UNION {Range(B[st]) : st \in Statuses} = Range(filteredTasks)
           /\ BucketTotal(B) = Len(filteredTasks)

\* C20 witness: the rendered board shows the projection of the mirror in two
\* columns, one of them in-progress, and some project selection would filter
\* a task out.
C20_Witness ==
    /\ rootState = "rendered"
    /\ tasksByStatus(filteredTasks) = Board(tasks, selectedProjectId)
    /\ Cardinality({st \in Statuses : tasksByStatus(filteredTasks)[st] # << >>}) = 2
    /\ tasksByStatus(filteredTasks)["in-progress"] # << >>
    /\ \E P \in Selections : FilterTasks(tasks, P) \notin {tasks, << >>}

\* C21: for the mirrored tasks T and every project id P the filter keeps a
\* task exactly when its project_id is P, and keeps all of T for the null
\* selection; and every pass of the board's filter effect leaves in
\* filteredTasks exactly the tasks of the currentTasks it rendered whose
\* project_id is the selection it rendered, or all of them for the null
\* selection.
C21_FilterByProject ==
    /\ [](/\ \A P \in ProjectIds :
              /\ \A t \in Range(tasks) :
                    t \in Range(FilterTasks(tasks, P)) <=> t.project_id = P
              /\ Range(FilterTasks(tasks, P)) \subseteq Range(tasks)
          /\ FilterTasks(tasks, "") = tasks)
    /\ [][ Effects =>
             /\ \A t \in Range(currentTasks) :
                   t \in Range(filteredTasks') <=>
                      (renderedProjectId = "" \/ t.project_id = renderedProjectId)
             /\ Range(filteredTasks') \subseteq Range(currentTasks)
         ]_vars

\* C21 witness: with a project selected, the filter effect has run and the
\* board keeps one task of its currentTasks and filters another out.
C21_Witness ==
    /\ lastOp.op = "useEffect" /\ selectedProjectId # ""
    /\ filteredTasks # << >> /\ filteredTasks # currentTasks
    /\ filteredTasks = FilterTasks(tasks, selectedProjectId)

\* C22: a task whose project_id matches no mirrored project gets no project
\* badge, a task whose project_id matches one gets that project's name, and
\* the view title names the selected project only when the mirror holds it
\* and is the generic title otherwise.
C22_DanglingProject ==
    /\ \A t \in Range(tasks) :
          /\ ~(t.project_id \in Ids(projects)) => ProjectBadge(t) = ""
          /\ t.project_id \in Ids(projects) =>
                \E q \in Range(projects) : q.id = t.project_id /\ ProjectBadge(t) = q.title
    /\ ~(selectedProjectId \in Ids(projects)) => getDisplayText = GenericTitle
    /\ selectedProjectId \in Ids(projects) =>
          \E q \in Range(projects) :
             q.id = selectedProjectId /\ getDisplayText = ProjectTitle(q.title)

\* C22 witness: the selected project was deleted remotely and the mirror
\* reloaded, so the selection and a mirrored task refer to a project the
\* mirror no longer holds.
C22_Witness ==
    /\ root /\ selectedProjectId # ""
    /\ ~Has(projects, selectedProjectId)
    /\ \E t \in Range(tasks) : t.project_id = selectedProjectId
    /\ getDisplayText = GenericTitle

\* C24 as claimed: while the board is rendered its copy of the tasks equals
\* the mirror's tasks, its filtered tasks equal the filter of the mirror
\* under the current selection, and so the buckets it shows are the
\* projection of the mirror.
C24_BoardFollowsMirror ==
    rootState = "rendered" =>
        /\ currentTasks = tasks
        /\ filteredTasks = FilterTasks(tasks, selectedProjectId)
        /\ tasksByStatus(filteredTasks) = Board(tasks, selectedProjectId)

\* C23 as claimed: no insert or update in flight carries an empty task title
\* or an empty project name.
C23_NoEmptyTitle ==
    \A r \in Pending :
        r.kind \in {"insert", "update"} =>
            /\ FieldOr(r.fields, "title", "some") # ""
            /\ FieldOr(r.fields, "name", "some") # ""

\* C25 as claimed: activeId is non-null exactly between a gesture start and
\* the end of that gesture, and holds the id of the card being dragged: it
\* is that card's id while a gesture is in progress and null while none is.
C25_ActiveWhileDragging == activeId = dragging

\* C26: the step that ends a gesture puts the update it issues in flight
\* itself, and a drop of a card of the board on another column issues one
\* when a session exists; a gesture start issues nothing and takes nothing
\* out of flight, so the update of an earlier gesture is already in flight
\* when the next gesture starts.
C26_UpdateIssuedAtGestureEnd ==
    [][ /\ \A over \in TargetIds :
             handleDragEnd(over) =>
                /\ inflight' = inflight (+) BagOfSeq(requests')
                /\ ( /\ supabase /\ over \in Statuses
                     /\ Has(filteredTasks, dragging)
                     /\ StatusOf(filteredTasks, dragging) # over )
                   => /\ Len(requests') = 1
                      /\ requests'[1].kind = "update" /\ requests'[1].id = dragging
                      /\ requests'[1].phase = "sent"
        /\ \A t \in TaskIds :
             handleDragStart(t) => (inflight' = inflight /\ requests' = << >>)
      ]_vars

\* C26 witness: a new gesture starts while the update of the previous one
\* is still waiting for its answer.
C26_Witness ==
    /\ lastOp.op = "handleDragStart"
    /\ activeId = lastOp.id
    /\ \E r \in Pending : r.flow = "handleDragEnd" /\ r.phase = "sent"

\* C27 as claimed: every call of initializeSupabase that establishes a
\* session (on load, by the reconnect command or the Connect button, by the
\* realtime toggle) is followed at once by a reload of both collections.
C27_ReloadFollowsConnect ==
    ( /\ lastOp.op \in {"onload", "initializeSupabase", "toggleRealtime.saved"}
      /\ Configured(settings) /\ supabase )
    => /\ \E i \in DOMAIN requests : requests[i].kind = "select" /\ requests[i].coll = "projects"
       /\ \E i \in DOMAIN requests : requests[i].kind = "select" /\ requests[i].coll = "tasks"

\* C28 as claimed: after every successful reload of tasks the status bar
\* shows the number of in-progress tasks of the mirror.
C28_StatusBarAfterReload ==
    (lastOp.op = "loadTasks" /\ lastOp.ok) => statusBar = ActiveTasks(tasks)

\* C29 as claimed: the refresh notice is raised only once both reloads of
\* the refresh have completed, and never without a session.
C29_RefreshedAfterReloads ==
    (\E i \in DOMAIN notices : notices[i] = Notice("Refreshed project data", ""))
    => /\ supabase
       /\ Joined = {}

\* C30: of the two reloads of loadProjectsAndTasks, one whose fetch failed
\* leaves its collection's mirror unchanged and one whose fetch succeeded
\* replaces its collection's mirror by the fetched rows, whatever the
\* outcome of the other; the status bar is left alone while the other reload
\* is still in flight and is set from the mirror when the last of the two
\* completes.
C30_JoinedReloadsIndependent ==
    [][ \A r \in Pending :
          (LoadDone(r) /\ r.join) =>
             /\ Mirror(r.coll)' = (IF r.phase = "ok" THEN r.data ELSE Mirror(r.coll))
             /\ \A c \in Collections \ {r.coll} : Mirror(c)' = Mirror(c)
             /\ IF \E q \in Joined : q # r
                THEN statusBar' = statusBar
                ELSE statusBar' = ActiveTasks(tasks')
      ]_vars

\* C30 witness: the projects reload of a loadProjectsAndTasks failed and its
\* tasks reload succeeded; both have completed, the tasks mirror holds the
\* fetched rows with an in-progress task and the status bar counts it.
C30_Witness ==
    /\ lastOp.op \in {"loadProjects", "loadTasks"}
    /\ Joined = {} /\ supabase
    /\ projects = << >> /\ mirrorRev.projects = -1
    /\ tasks = remote.tasks /\ mirrorRev.tasks = rev.tasks
    /\ statusBar = 1 /\ ActiveTasks(tasks) = 1
    /\ Queued("tasks") = Cardinality(channels)

====
